---- MODULE Spec2Model ----
(***************************************************************************)
(* Model of the schema builder: the SchemaBuilder component's field forest *)
(* (src/components/schema-builder.tsx), the tree helpers it uses           *)
(* (src/lib/utils/schema-utils.ts), the rule catalog                       *)
(* (src/lib/constants/validation-rules.ts) and the workspace kept by       *)
(* SchemaListManager (src/components/schema-list-manager.tsx).             *)
(*                                                                         *)
(* Encoding of JavaScript values:                                          *)
(*   - an optional value is a sequence of length 0 (undefined) or 1;       *)
(*   - a path "a.item_schema.b" is the sequence of its '.'-separated       *)
(*     segments <<"a", "item_schema", "b">> (ids never contain a dot);     *)
(*   - a rule value (string | number | boolean | undefined) is a tagged    *)
(*     record, see VBool, VNum, VStr, VUndef.                              *)
(***************************************************************************)
EXTENDS Integers, Sequences, FiniteSets, TLC

VARIABLES
    schema,             \* SchemaBuilder: useState<SchemaField[]> (the forest)
    selectedTypeToAdd,  \* SchemaBuilder: type pre-selected for "Add Field"
    nextId,             \* number of ids generateUUID has returned so far
    fieldsLeft,         \* number of fields the user may still create
    editsLeft,          \* number of other handlers the user may still run
    lastOp,             \* the handler that ran last
    schemas,            \* SchemaListManager: useState<Schema[]> (the workspace)
    selectedSchema,     \* SchemaListManager: the schema being edited, if any
    isCreating,         \* SchemaListManager: the "Create New Schema" form is open
    newSchemaName,      \* SchemaListManager: text of the schema name input
    showJsonView,       \* SchemaListManager: the JSON view was asked for
    clock,              \* the value the next new Date() returns
    nextSchemaId,       \* number of schema ids generated so far
    wsLeft              \* number of workspace handlers the user may still run

builderVars == <<schema, selectedTypeToAdd, nextId, fieldsLeft, editsLeft>>

wsVars == <<schemas, selectedSchema, isCreating, newSchemaName, showJsonView,
            clock, nextSchemaId, wsLeft>>

vars == <<schema, selectedTypeToAdd, nextId, fieldsLeft, editsLeft, lastOp,
          schemas, selectedSchema, isCreating, newSchemaName, showJsonView,
          clock, nextSchemaId, wsLeft>>

----------------------------------------------------------------------------
(* Bounds of the model *)

\* a session of Spec creates at most MaxFields fields and runs at most
\* MaxEdits handlers that create no field (rename, toggle, select, rule
\* edits, type changes, removals)
MaxFields == 3
MaxEdits == 2

\* a session of DeepSpec: more fields, fewer other edits
DeepFields == 5
DeepEdits == 1

\* a session of LoadedSpec: the builder mounted with one field; as many
\* fields created and other handlers run on top of it
LoadedFields == 2
LoadedEdits == 1

\* a session of WorkspaceSpec: the SchemaListManager with the builder in it
WsFields == 1
WsEdits == 1
WsOps == 7

\* what the user types or picks
NameInputs == {"n"}
NumberInputs == {2}
TextInputs == {"a"}
\* schema names are sequences of characters
SchemaNameInputs == { <<" ">>, <<"a">>, <<" ", "a", " ">> }
RenameInputs == { <<>>, <<"b">> }

----------------------------------------------------------------------------
(* Optional values *)

None == <<>>
Some(v) == <<v>>
IsDefined(o) == Len(o) = 1
Get(o) == o[1]

(* Rule values: string | number | boolean | undefined *)
VBool(b) == [t |-> "boolean", b |-> b, n |-> 0, s |-> ""]
VNum(n) == [t |-> "number", b |-> FALSE, n |-> n, s |-> ""]
VStr(s) == [t |-> "string", b |-> FALSE, n |-> 0, s |-> s]
VUndef == [t |-> "undefined", b |-> FALSE, n |-> 0, s |-> ""]

\* JavaScript truthiness of a rule value (the left operand of ||)
Truthy(v) ==
    CASE v.t = "boolean" -> v.b
      [] v.t = "number" -> v.n # 0
      [] v.t = "string" -> v.s # ""
      [] OTHER -> FALSE

----------------------------------------------------------------------------
(* Types and the rule catalog *)

DataType == {"string", "number", "boolean", "array", "object"}

VALIDATION_RULES_BY_TYPE ==
    [ string |-> << [name |-> "required", type |-> "boolean"],
                    [name |-> "min_length", type |-> "number"],
                    [name |-> "max_length", type |-> "number"],
                    [name |-> "pattern", type |-> "text"],
                    [name |-> "has_symbols", type |-> "boolean"],
                    [name |-> "has_numbers", type |-> "boolean"],
                    [name |-> "has_uppercase", type |-> "boolean"],
                    [name |-> "has_lowercase", type |-> "boolean"] >>,
      number |-> << [name |-> "required", type |-> "boolean"],
                    [name |-> "min", type |-> "number"],
                    [name |-> "max", type |-> "number"],
                    [name |-> "integer_only", type |-> "boolean"],
                    [name |-> "positive_only", type |-> "boolean"] >>,
      boolean |-> << [name |-> "required", type |-> "boolean"],
                     [name |-> "must_be_true", type |-> "boolean"] >>,
      array |-> << [name |-> "required", type |-> "boolean"],
                   [name |-> "min_items", type |-> "number"],
                   [name |-> "max_items", type |-> "number"],
                   [name |-> "unique_items", type |-> "boolean"] >>,
      object |-> << [name |-> "required", type |-> "boolean"] >> ]

\* the literal path segment renderField uses for an array's item schema
ITEM_SCHEMA == "item_schema"

\* the k-th value returned by generateUUID; distinct calls give distinct ids
generateUUID(k) == ToString(k)

----------------------------------------------------------------------------
(* Sequence helpers: Array.prototype.map / filter on sequences *)

MapSeq(s, F(_)) == [i \in 1..Len(s) |-> F(s[i])]

FilterSeq(s, Keep(_)) == SelectSeq(s, Keep)

Range(s) == {s[i] : i \in 1..Len(s)}

----------------------------------------------------------------------------
(* Fields *)

\* default value of a rule, by the kind of its catalog entry
DefaultRuleValue(kind) ==
    IF kind = "boolean" THEN VBool(FALSE)
    ELSE IF kind = "number" THEN VNum(0)
    ELSE VStr("")

DefaultRules(type) ==
    MapSeq(VALIDATION_RULES_BY_TYPE[type],
           LAMBDA rule : [name |-> rule.name,
                          enabled |-> FALSE,
                          value |-> DefaultRuleValue(rule.type)])

\* createSchemaField(type), with the id generateUUID returns made explicit
createSchemaFieldForObjectOnly(type, id) ==
    [ id |-> id,
      display_name |-> "",
      data_type |-> type,
      validation_rules |-> DefaultRules(type),
      properties |-> IF type = "object" THEN Some(<<>>) ELSE None,
      item_schema |-> None,
      selectedTypeToAdd |-> IF type = "object" THEN Some("string") ELSE None,
      isExpanded |-> TRUE ]

createSchemaField(type, id) ==
    [ id |-> id,
      display_name |-> "",
      data_type |-> type,
      validation_rules |-> DefaultRules(type),
      properties |-> IF type = "object" THEN Some(<<>>) ELSE None,
      item_schema |-> None,
      selectedTypeToAdd |->
          IF type = "object" \/ type = "array" THEN Some("string") ELSE None,
      isExpanded |-> TRUE ]

\* Merge that copies every key of the field but item_schema
MergeDroppingItemSchema(field, updates) ==
    LET P(k) == IF k \in DOMAIN updates THEN updates[k] ELSE field[k]
    IN [ id |-> P("id"),
         display_name |-> P("display_name"),
         data_type |-> P("data_type"),
         validation_rules |-> P("validation_rules"),
         properties |-> P("properties"),
         item_schema |-> IF "item_schema" \in DOMAIN updates
                         THEN updates["item_schema"] ELSE None,
         selectedTypeToAdd |-> P("selectedTypeToAdd"),
         isExpanded |-> P("isExpanded") ]

\* { ...field, ...updates }: a key present in updates wins, also when its
\* value is undefined
Merge(field, updates) ==
    LET P(k) == IF k \in DOMAIN updates THEN updates[k] ELSE field[k]
    IN [ id |-> P("id"),
         display_name |-> P("display_name"),
         data_type |-> P("data_type"),
         validation_rules |-> P("validation_rules"),
         properties |-> P("properties"),
         item_schema |-> P("item_schema"),
         selectedTypeToAdd |-> P("selectedTypeToAdd"),
         isExpanded |-> P("isExpanded") ]

\* field.item_schema?.data_type === "object"
ItemIsObject(field) ==
    IsDefined(field.item_schema) /\ Get(field.item_schema).data_type = "object"

\* xs || [] for an optional list
OrEmpty(o) == IF IsDefined(o) THEN Get(o) ELSE <<>>

\* validation_rules.map(rule => rule.name === ruleName
\*                              ? { ...rule, enabled, value } : rule)
SetRule(rules, ruleName, enabled, value) ==
    MapSeq(rules,
           LAMBDA rule : IF rule.name = ruleName
                         THEN [name |-> rule.name, enabled |-> enabled,
                               value |-> value]
                         ELSE rule)

----------------------------------------------------------------------------
(* The updater callbacks the handlers pass to updateNestedField.  A         *)
(* callback is a record naming the handler that built it and the values    *)
(* the closure captured; ApplyUpdater runs it on the located field.        *)

\* addField: append newField to an object's properties
AddFieldUpdater(field, newField) ==
    IF field.data_type = "object"
    THEN [field EXCEPT !.properties =
              Some(OrEmpty(field.properties) \o <<newField>>)]
    ELSE field

\* updateField: shallow merge
UpdateFieldUpdater(field, updates) == Merge(field, updates)

\* updateArrayItemField: merge updates into the item property itemFieldId
UpdateArrayItemFieldUpdater(field, itemFieldId, updates) ==
    IF field.data_type = "array" /\ ItemIsObject(field)
    THEN LET item == Get(field.item_schema)
         IN [field EXCEPT !.item_schema = Some([item EXCEPT !.properties =
                Some(IF IsDefined(item.properties)
                     THEN MapSeq(Get(item.properties),
                                 LAMBDA prop : IF prop.id = itemFieldId
                                               THEN Merge(prop, updates)
                                               ELSE prop)
                     ELSE <<>>)])]
    ELSE field

\* removeArrayItemField: drop the item property itemFieldId
RemoveArrayItemFieldUpdater(field, itemFieldId) ==
    IF field.data_type = "array" /\ ItemIsObject(field)
    THEN LET item == Get(field.item_schema)
         IN [field EXCEPT !.item_schema = Some([item EXCEPT !.properties =
                Some(IF IsDefined(item.properties)
                     THEN FilterSeq(Get(item.properties),
                                    LAMBDA prop : prop.id # itemFieldId)
                     ELSE <<>>)])]
    ELSE field

\* updateArrayItemValidationRule: set one rule of the item property
UpdateArrayItemValidationRuleUpdater(field, itemFieldId, ruleName, enabled, value) ==
    IF field.data_type = "array" /\ ItemIsObject(field)
    THEN LET item == Get(field.item_schema)
         IN [field EXCEPT !.item_schema = Some([item EXCEPT !.properties =
                Some(IF IsDefined(item.properties)
                     THEN MapSeq(Get(item.properties),
                                 LAMBDA prop :
                                    IF prop.id = itemFieldId
                                    THEN [prop EXCEPT !.validation_rules =
                                            SetRule(prop.validation_rules,
                                                    ruleName, enabled, value)]
                                    ELSE prop)
                     ELSE <<>>)])]
    ELSE field

\* updateValidationRule: set one rule of the located field
UpdateValidationRuleUpdater(field, ruleName, enabled, value) ==
    [field EXCEPT !.validation_rules =
        SetRule(field.validation_rules, ruleName, enabled, value)]

\* removeField: filter fieldId out of the located field's properties
RemoveFieldUpdater(field, fieldId) ==
    [field EXCEPT !.properties =
        Some(IF IsDefined(field.properties)
             THEN FilterSeq(Get(field.properties),
                            LAMBDA prop : prop.id # fieldId)
             ELSE <<>>)]

\* setArrayItemSchema: install newItemSchema
SetArrayItemSchemaUpdater(field, newItemSchema) ==
    [field EXCEPT !.item_schema = Some(newItemSchema)]

\* addArrayItemField: append newField to the object item schema's properties
AddArrayItemFieldUpdater(field, newField) ==
    IF field.data_type = "array" /\ ItemIsObject(field)
    THEN LET item == Get(field.item_schema)
         IN [field EXCEPT !.item_schema = Some([item EXCEPT !.properties =
                Some(OrEmpty(item.properties) \o <<newField>>)])]
    ELSE field

ApplyUpdater(u, field) ==
    CASE u.kind = "addField" -> AddFieldUpdater(field, u.newField)
      [] u.kind = "updateField" -> UpdateFieldUpdater(field, u.updates)
      [] u.kind = "updateArrayItemField" ->
            UpdateArrayItemFieldUpdater(field, u.itemFieldId, u.updates)
      [] u.kind = "removeArrayItemField" ->
            RemoveArrayItemFieldUpdater(field, u.itemFieldId)
      [] u.kind = "updateArrayItemValidationRule" ->
            UpdateArrayItemValidationRuleUpdater(field, u.itemFieldId,
                                                 u.ruleName, u.enabled, u.value)
      [] u.kind = "updateValidationRule" ->
            UpdateValidationRuleUpdater(field, u.ruleName, u.enabled, u.value)
      [] u.kind = "removeField" -> RemoveFieldUpdater(field, u.fieldId)
      [] u.kind = "setArrayItemSchema" ->
            SetArrayItemSchemaUpdater(field, u.newItemSchema)
      [] u.kind = "addArrayItemField" ->
            AddArrayItemFieldUpdater(field, u.newField)

----------------------------------------------------------------------------
(* updateNestedField *)

\* what updateNestedField does with one element of fields.map(...)
RECURSIVE updateNestedField(_, _, _)
UpdateNestedStep(field, path, u) ==
    IF field.id = path[1]
    THEN IF Len(path) = 1
         THEN ApplyUpdater(u, field)
         ELSE IF IsDefined(field.properties)
              THEN [field EXCEPT !.properties =
                      Some(updateNestedField(Get(field.properties), Tail(path), u))]
              ELSE IF IsDefined(field.item_schema)
                   THEN [field EXCEPT !.item_schema =
                           Some(ApplyUpdater(u, Get(field.item_schema)))]
                   ELSE field
    ELSE field

updateNestedField(fields, path, u) ==
    [i \in 1..Len(fields) |-> UpdateNestedStep(fields[i], path, u)]

----------------------------------------------------------------------------
(* The SchemaBuilder operations, as functions from the forest held in      *)
(* state (prev) to the forest passed to setSchema                          *)

\* addField(parentPath?): parentPath = None for the top-level "Add Field"
addField(prev, parentPath, newField) ==
    IF ~IsDefined(parentPath)
    THEN prev \o <<newField>>
    ELSE updateNestedField(prev, Get(parentPath),
                           [kind |-> "addField", newField |-> newField])

updateField(prev, path, updates) ==
    updateNestedField(prev, path, [kind |-> "updateField", updates |-> updates])

updateArrayItemField(prev, arrayPath, itemFieldId, updates) ==
    updateNestedField(prev, arrayPath,
                      [kind |-> "updateArrayItemField",
                       itemFieldId |-> itemFieldId, updates |-> updates])

removeArrayItemField(prev, arrayPath, itemFieldId) ==
    updateNestedField(prev, arrayPath,
                      [kind |-> "removeArrayItemField",
                       itemFieldId |-> itemFieldId])

updateArrayItemValidationRule(prev, arrayPath, itemFieldId, ruleName, enabled, value) ==
    updateNestedField(prev, arrayPath,
                      [kind |-> "updateArrayItemValidationRule",
                       itemFieldId |-> itemFieldId, ruleName |-> ruleName,
                       enabled |-> enabled, value |-> value])

updateValidationRule(prev, path, ruleName, enabled, value) ==
    updateNestedField(prev, path,
                      [kind |-> "updateValidationRule", ruleName |-> ruleName,
                       enabled |-> enabled, value |-> value])

removeField(prev, path) ==
    IF Len(path) = 1
    THEN FilterSeq(prev, LAMBDA field : field.id # path[1])
    ELSE updateNestedField(prev, SubSeq(path, 1, Len(path) - 1),
                           [kind |-> "removeField", fieldId |-> path[Len(path)]])

setArrayItemSchema(prev, path, newItemSchema) ==
    updateNestedField(prev, path,
                      [kind |-> "setArrayItemSchema",
                       newItemSchema |-> newItemSchema])

addArrayItemField(prev, arrayPath, newField) ==
    updateNestedField(prev, arrayPath,
                      [kind |-> "addArrayItemField", newField |-> newField])

----------------------------------------------------------------------------
(* cleanSchemaForExport.  A JSON object whose keys are computed (the rule  *)
(* mapping) is the sequence of its [name, value] entries in insertion      *)
(* order; the exported field is a record with exactly the keys set.        *)

\* acc[name] = value
AssignKey(acc, name, value) ==
    IF \E i \in 1..Len(acc) : acc[i].name = name
    THEN [i \in 1..Len(acc) |->
            IF acc[i].name = name THEN [name |-> name, value |-> value]
            ELSE acc[i]]
    ELSE Append(acc, [name |-> name, value |-> value])

\* rules.reduce((acc, rule) => { acc[rule.name] = rule.value; return acc }, acc)
RECURSIVE ReduceRules(_, _)
ReduceRules(rules, acc) ==
    IF rules = <<>> THEN acc
    ELSE ReduceRules(Tail(rules),
                     AssignKey(acc, Head(rules).name, Head(rules).value))

\* ExportRules without the filter on enabled
ExportRulesUnfiltered(field) ==
    ReduceRules(field.validation_rules, <<>>)

\* field.validation_rules.filter(rule => rule.enabled).reduce(..., {})
ExportRules(field) ==
    ReduceRules(FilterSeq(field.validation_rules, LAMBDA rule : rule.enabled),
                <<>>)

RECURSIVE cleanSchemaForExport(_)

\* CleanField that copies the field's id into the cleaned object
CleanFieldKeepingId(field) ==
    IF field.data_type = "object" /\ IsDefined(field.properties)
    THEN [ id |-> field.id,
           display_name |-> field.display_name,
           data_type |-> field.data_type,
           validation_rules |-> ExportRules(field),
           properties |-> cleanSchemaForExport(Get(field.properties)) ]
    ELSE IF field.data_type = "array" /\ IsDefined(field.item_schema)
    THEN [ id |-> field.id,
           display_name |-> field.display_name,
           data_type |-> field.data_type,
           validation_rules |-> ExportRules(field),
           item_schema |-> cleanSchemaForExport(<<Get(field.item_schema)>>)[1] ]
    ELSE [ id |-> field.id,
           display_name |-> field.display_name,
           data_type |-> field.data_type,
           validation_rules |-> ExportRules(field) ]

\* CleanField that emits properties for a non-empty list only
CleanFieldDroppingEmpty(field) ==
    IF field.data_type = "object" /\ IsDefined(field.properties)
                                  /\ Get(field.properties) # <<>>
    THEN [ display_name |-> field.display_name,
           data_type |-> field.data_type,
           validation_rules |-> ExportRules(field),
           properties |-> cleanSchemaForExport(Get(field.properties)) ]
    ELSE IF field.data_type = "array" /\ IsDefined(field.item_schema)
    THEN [ display_name |-> field.display_name,
           data_type |-> field.data_type,
           validation_rules |-> ExportRules(field),
           item_schema |-> cleanSchemaForExport(<<Get(field.item_schema)>>)[1] ]
    ELSE [ display_name |-> field.display_name,
           data_type |-> field.data_type,
           validation_rules |-> ExportRules(field) ]

\* the body of cleanSchemaForExport's fields.map(...)
CleanField(field) ==
    IF field.data_type = "object" /\ IsDefined(field.properties)
    THEN [ display_name |-> field.display_name,
           data_type |-> field.data_type,
           validation_rules |-> ExportRules(field),
           properties |-> cleanSchemaForExport(Get(field.properties)) ]
    ELSE IF field.data_type = "array" /\ IsDefined(field.item_schema)
    THEN [ display_name |-> field.display_name,
           data_type |-> field.data_type,
           validation_rules |-> ExportRules(field),
           item_schema |-> cleanSchemaForExport(<<Get(field.item_schema)>>)[1] ]
    ELSE [ display_name |-> field.display_name,
           data_type |-> field.data_type,
           validation_rules |-> ExportRules(field) ]

cleanSchemaForExport(fields) ==
    [i \in 1..Len(fields) |-> CleanField(fields[i])]

----------------------------------------------------------------------------
(* renderField: the cards on screen.  A card is the field it shows and the *)
(* arguments renderField was called with, which its handlers close over.   *)

Card(field, path, isArrayItem, arrayPath) ==
    [field |-> field, path |-> path, isArrayItem |-> isArrayItem,
     arrayPath |-> arrayPath]

\* isArrayItem && arrayPath (an undefined arrayPath is the empty path)
UseArrayItem(c) == c.isArrayItem /\ c.arrayPath # <<>>

RECURSIVE renderField(_, _, _, _)
renderField(field, path, isArrayItem, arrayPath) ==
    LET self == Card(field, path, isArrayItem, arrayPath)
        item == Get(field.item_schema)
        itemCards ==
            IF field.data_type = "array" /\ IsDefined(field.item_schema)
            THEN renderField(item, path \o <<ITEM_SCHEMA>>, FALSE, <<>>)
                 \cup
                 (IF item.data_type = "object"
                  THEN UNION { renderField(prop,
                                           path \o <<ITEM_SCHEMA, prop.id>>,
                                           TRUE,
                                           IF UseArrayItem(self) THEN arrayPath
                                           ELSE path)
                               : prop \in Range(OrEmpty(item.properties)) }
                  ELSE {})
            ELSE {}
        propertyCards ==
            IF field.data_type = "object" /\ field.isExpanded
            THEN UNION { renderField(prop, path \o <<prop.id>>, FALSE, <<>>)
                         : prop \in Range(OrEmpty(field.properties)) }
            ELSE {}
    IN {self} \cup itemCards \cup propertyCards

\* schema.map((field) => renderField(field, field.id))
Cards(fields) ==
    UNION { renderField(field, <<field.id>>, FALSE, <<>>) : field \in Range(fields) }

----------------------------------------------------------------------------
(* The handlers renderField and renderValidationRules wire to a card, as   *)
(* functions from the forest in state (prev) and the card to the forest    *)
(* passed to setSchema.  id is the id generateUUID returns to the handler. *)

\* Collapsible onOpenChange
OnOpenChange(prev, c) ==
    LET updates == [isExpanded |-> ~c.field.isExpanded]
    IN IF UseArrayItem(c)
       THEN updateArrayItemField(prev, c.arrayPath, c.field.id, updates)
       ELSE updateField(prev, c.path, updates)

\* Display Name onChange
OnDisplayNameChange(prev, c, name) ==
    LET updates == [display_name |-> name]
    IN IF UseArrayItem(c)
       THEN updateArrayItemField(prev, c.arrayPath, c.field.id, updates)
       ELSE updateField(prev, c.path, updates)

\* TypeChangeUpdates that leaves validation_rules out of the updates
TypeChangeUpdatesKeepingRules(value) ==
    [ data_type |-> value,
      properties |-> IF value = "object" THEN Some(<<>>) ELSE None,
      item_schema |-> None,
      selectedTypeToAdd |->
          IF value = "object" \/ value = "array" THEN Some("string") ELSE None ]

\* the updates object built by the Data Type onValueChange; only the
\* validation_rules of createSchemaField(value) are used, its id is dropped
TypeChangeUpdates(value) ==
    [ data_type |-> value,
      validation_rules |-> createSchemaField(value, "").validation_rules,
      properties |-> IF value = "object" THEN Some(<<>>) ELSE None,
      item_schema |-> None,
      selectedTypeToAdd |->
          IF value = "object" \/ value = "array" THEN Some("string") ELSE None ]

\* Data Type onValueChange
OnDataTypeChange(prev, c, value) ==
    IF UseArrayItem(c)
    THEN updateArrayItemField(prev, c.arrayPath, c.field.id, TypeChangeUpdates(value))
    ELSE updateField(prev, c.path, TypeChangeUpdates(value))

\* the trash button of a card
OnRemoveClick(prev, c) ==
    IF UseArrayItem(c)
    THEN removeArrayItemField(prev, c.arrayPath, c.field.id)
    ELSE removeField(prev, c.path)

\* the rules renderValidationRules shows for a card: the catalog entries of
\* the field's type that field.validation_rules.find(...) finds
ShownRules(field) ==
    { cfg \in Range(VALIDATION_RULES_BY_TYPE[field.data_type]) :
        \E r \in Range(field.validation_rules) : r.name = cfg.name }

\* field.validation_rules.find((r) => r.name === name)
FindRule(field, name) ==
    LET i == CHOOSE i \in 1..Len(field.validation_rules) :
                /\ field.validation_rules[i].name = name
                /\ \A j \in 1..(i - 1) : field.validation_rules[j].name # name
    IN field.validation_rules[i]

\* SwitchValue without the "|| 0" of a number rule
SwitchValueKeepingAbsent(rule, kind, enabled) ==
    IF enabled /\ kind = "boolean" THEN VBool(TRUE)
    ELSE IF enabled /\ kind = "text"
         THEN (IF Truthy(rule.value) THEN rule.value ELSE VStr(""))
    ELSE rule.value

\* SwitchValue that passes the rule's own value for a boolean rule
SwitchValueKeepingBoolean(rule, kind, enabled) ==
    IF enabled /\ kind = "number"
    THEN (IF Truthy(rule.value) THEN rule.value ELSE VNum(0))
    ELSE IF enabled /\ kind = "text"
         THEN (IF Truthy(rule.value) THEN rule.value ELSE VStr(""))
    ELSE rule.value

\* SwitchValue that resets the value of a rule it disables
SwitchValueResettingOnDisable(rule, kind, enabled) ==
    IF enabled /\ kind = "boolean" THEN VBool(TRUE)
    ELSE IF enabled /\ kind = "number"
         THEN (IF Truthy(rule.value) THEN rule.value ELSE VNum(0))
    ELSE IF enabled /\ kind = "text"
         THEN (IF Truthy(rule.value) THEN rule.value ELSE VStr(""))
    ELSE DefaultRuleValue(kind)

\* the value the Switch passes on
SwitchValue(rule, kind, enabled) ==
    IF enabled /\ kind = "boolean" THEN VBool(TRUE)
    ELSE IF enabled /\ kind = "number"
         THEN (IF Truthy(rule.value) THEN rule.value ELSE VNum(0))
    ELSE IF enabled /\ kind = "text"
         THEN (IF Truthy(rule.value) THEN rule.value ELSE VStr(""))
    ELSE rule.value

SetRuleFromCard(prev, c, ruleName, enabled, value) ==
    IF UseArrayItem(c)
    THEN updateArrayItemValidationRule(prev, c.arrayPath, c.field.id,
                                       ruleName, enabled, value)
    ELSE updateValidationRule(prev, c.path, ruleName, enabled, value)

\* Switch onCheckedChange, for the rule of catalog entry cfg
OnRuleSwitch(prev, c, cfg) ==
    LET rule == FindRule(c.field, cfg.name)
        enabled == ~rule.enabled
    IN SetRuleFromCard(prev, c, rule.name, enabled,
                       SwitchValue(rule, cfg.type, enabled))

\* onChange of the Input of an enabled rule: Number(e.target.value) or
\* e.target.value
OnRuleInput(prev, c, cfg, value) ==
    SetRuleFromCard(prev, c, FindRule(c.field, cfg.name).name, TRUE, value)

\* what both item type controls of an array without item schema do
OnItemTypeChosen(prev, c, value, id) ==
    IF UseArrayItem(c)
    THEN updateArrayItemField(prev, c.arrayPath, c.field.id,
                              [item_schema |-> Some(createSchemaField(value, id))])
    ELSE setArrayItemSchema(prev, c.path, createSchemaField(value, id))

\* x.selectedTypeToAdd || "string"
TypeToAddOf(field) ==
    IF IsDefined(field.selectedTypeToAdd) THEN Get(field.selectedTypeToAdd)
    ELSE "string"

\* the type Select next to "Add Field to Array Items"
OnItemSelectTypeToAdd(prev, c, value) ==
    LET item == Get(c.field.item_schema)
    IN IF UseArrayItem(c)
       THEN updateArrayItemField(prev, c.arrayPath, c.field.id,
                [item_schema |->
                    Some([item EXCEPT !.selectedTypeToAdd = Some(value)])])
       ELSE updateField(prev, c.path \o <<ITEM_SCHEMA>>,
                        [selectedTypeToAdd |-> Some(value)])

\* "Add Field to Array Items"
OnAddFieldToArrayItems(prev, c, id) ==
    LET item == Get(c.field.item_schema)
        newField == createSchemaField(TypeToAddOf(item), id)
    IN IF UseArrayItem(c)
       THEN updateArrayItemField(prev, c.arrayPath, c.field.id,
                [item_schema |->
                    Some([item EXCEPT !.properties =
                            Some(OrEmpty(item.properties) \o <<newField>>)])])
       ELSE addArrayItemField(prev, c.path, newField)

\* the type Select next to "Add Property"
OnObjectSelectTypeToAdd(prev, c, value) ==
    updateField(prev, c.path, [selectedTypeToAdd |-> Some(value)])

\* "Add Property"
OnAddProperty(prev, c, id) ==
    LET newField == createSchemaField(TypeToAddOf(c.field), id)
    IN updateField(prev, c.path,
                   [properties |->
                       Some(OrEmpty(c.field.properties) \o <<newField>>)])

\* the card shows the item type controls of an array without item schema
ShowsItemTypeControls(c) ==
    /\ c.field.data_type = "array"
    /\ ~IsDefined(c.field.item_schema)

\* the card shows the controls of an object item schema
ShowsItemControls(c) ==
    /\ c.field.data_type = "array"
    /\ ItemIsObject(c.field)

\* the card shows the controls of an expanded object
ShowsObjectControls(c) ==
    /\ c.field.data_type = "object"
    /\ c.field.isExpanded

----------------------------------------------------------------------------
(* State machine of the SchemaBuilder: one action per handler *)

\* the SchemaBuilder on its own (no onSchemaChange), mounted without fields
Mounted ==
    /\ schema = <<>>
    /\ selectedTypeToAdd = "string"
    /\ nextId = 0
    /\ lastOp = "mount"
    /\ schemas = <<>>
    /\ selectedSchema = None
    /\ isCreating = FALSE
    /\ newSchemaName = <<>>
    /\ showJsonView = FALSE
    /\ clock = 0
    /\ nextSchemaId = 0
    /\ wsLeft = 0

Init ==
    /\ Mounted
    /\ fieldsLeft = MaxFields
    /\ editsLeft = MaxEdits

\* the builder before its first field, after any use of the header's type
\* Select: the states SetSelectedTypeToAdd reaches from Mounted
DeepInit ==
    /\ schema = <<>>
    /\ selectedTypeToAdd \in DataType
    /\ nextId = 0
    /\ lastOp = IF selectedTypeToAdd = "string" THEN "mount"
                                                ELSE "setSelectedTypeToAdd"
    /\ schemas = <<>>
    /\ selectedSchema = None
    /\ isCreating = FALSE
    /\ newSchemaName = <<>>
    /\ showJsonView = FALSE
    /\ clock = 0
    /\ nextSchemaId = 0
    /\ wsLeft = 0
    /\ fieldsLeft = DeepFields
    /\ editsLeft = DeepEdits

\* updateSchema without the test on the id
updateSchemaOfAll(list, schemaId, fields, now) ==
    MapSeq(list, LAMBDA s : [s EXCEPT !.fields = fields, !.updatedAt = now])

\* updateSchema(schemaId, fields), with the value of new Date() made explicit
updateSchema(list, schemaId, fields, now) ==
    MapSeq(list, LAMBDA s : IF s.id = schemaId
                            THEN [s EXCEPT !.fields = fields, !.updatedAt = now]
                            ELSE s)

\* the effect on [schema]: after setSchema(next) the builder calls
\* onSchemaChange(next), which SchemaListManager wires to updateSchema of the
\* schema being edited; a builder on its own has no onSchemaChange
OnSchemaChangeEffect(next) ==
    /\ IF IsDefined(selectedSchema)
       THEN /\ schemas' = updateSchema(schemas, Get(selectedSchema).id, next, clock)
            /\ clock' = clock + 1
       ELSE UNCHANGED <<schemas, clock>>
    /\ UNCHANGED <<selectedSchema, isCreating, newSchemaName, showJsonView,
                   nextSchemaId, wsLeft>>

\* a handler that creates no field sets the forest to next
Edit(name, next) ==
    /\ editsLeft > 0
    /\ schema' = next
    /\ editsLeft' = editsLeft - 1
    /\ lastOp' = name
    /\ OnSchemaChangeEffect(next)
    /\ UNCHANGED <<selectedTypeToAdd, nextId, fieldsLeft>>

\* a handler that called createSchemaField and put the field in the forest
Create(name, next) ==
    /\ fieldsLeft > 0
    /\ schema' = next
    /\ nextId' = nextId + 1
    /\ fieldsLeft' = fieldsLeft - 1
    /\ lastOp' = name
    /\ OnSchemaChangeEffect(next)
    /\ UNCHANGED <<selectedTypeToAdd, editsLeft>>

\* the id the next call of generateUUID returns
FreshId == generateUUID(nextId + 1)

\* the type Select of the builder header
SetSelectedTypeToAdd ==
    \E value \in DataType \ {selectedTypeToAdd} :
        /\ editsLeft > 0
        /\ selectedTypeToAdd' = value
        /\ editsLeft' = editsLeft - 1
        /\ lastOp' = "setSelectedTypeToAdd"
        /\ UNCHANGED <<schema, nextId, fieldsLeft>>
        /\ UNCHANGED wsVars

\* "Add Field": addField()
AddField ==
    LET newField == createSchemaField(selectedTypeToAdd, FreshId)
    IN /\ selectedTypeToAdd \in DataType
       /\ Create("addField", addField(schema, None, newField))

ToggleExpanded ==
    \E c \in Cards(schema) :
        /\ c.field.data_type \in {"object", "array"}
        /\ Edit("toggleExpanded", OnOpenChange(schema, c))

Rename ==
    \E c \in Cards(schema), name \in NameInputs :
        /\ name # c.field.display_name
        /\ Edit("rename", OnDisplayNameChange(schema, c, name))

\* the Select reports a change of value only
ChangeType ==
    \E c \in Cards(schema), value \in DataType :
        /\ value # c.field.data_type
        /\ Edit("changeType", OnDataTypeChange(schema, c, value))

Remove ==
    \E c \in Cards(schema) :
        Edit("remove", OnRemoveClick(schema, c))

RuleSwitch ==
    \E c \in Cards(schema) : \E cfg \in ShownRules(c.field) :
        Edit("ruleSwitch", OnRuleSwitch(schema, c, cfg))

\* the number Input is shown for an enabled number rule
RuleNumberInput ==
    \E c \in Cards(schema) : \E cfg \in ShownRules(c.field), n \in NumberInputs :
        /\ FindRule(c.field, cfg.name).enabled
        /\ cfg.type = "number"
        /\ Edit("ruleNumberInput", OnRuleInput(schema, c, cfg, VNum(n)))

\* the text Input is shown for an enabled rule neither boolean nor number
RuleTextInput ==
    \E c \in Cards(schema) : \E cfg \in ShownRules(c.field), s \in TextInputs :
        /\ FindRule(c.field, cfg.name).enabled
        /\ cfg.type # "boolean"
        /\ cfg.type # "number"
        /\ Edit("ruleTextInput", OnRuleInput(schema, c, cfg, VStr(s)))

\* the item type Select (its value is fixed to "string")
SetItemTypeSelect ==
    \E c \in Cards(schema), value \in DataType \ {"string"} :
        /\ ShowsItemTypeControls(c)
        /\ Create("setItemTypeSelect", OnItemTypeChosen(schema, c, value, FreshId))

\* the "Set Item Type" button
SetItemTypeButton ==
    \E c \in Cards(schema) :
        /\ ShowsItemTypeControls(c)
        /\ Create("setItemTypeButton", OnItemTypeChosen(schema, c, "string", FreshId))

ItemSelectTypeToAdd ==
    \E c \in Cards(schema), value \in DataType :
        /\ ShowsItemControls(c)
        /\ value # TypeToAddOf(Get(c.field.item_schema))
        /\ Edit("itemSelectTypeToAdd", OnItemSelectTypeToAdd(schema, c, value))

AddFieldToArrayItems ==
    \E c \in Cards(schema) :
        /\ ShowsItemControls(c)
        /\ Create("addFieldToArrayItems", OnAddFieldToArrayItems(schema, c, FreshId))

ObjectSelectTypeToAdd ==
    \E c \in Cards(schema), value \in DataType :
        /\ ShowsObjectControls(c)
        /\ Some(value) # c.field.selectedTypeToAdd
        /\ Edit("objectSelectTypeToAdd", OnObjectSelectTypeToAdd(schema, c, value))

AddProperty ==
    \E c \in Cards(schema) :
        /\ ShowsObjectControls(c)
        /\ Create("addProperty", OnAddProperty(schema, c, FreshId))

Next ==
    \/ SetSelectedTypeToAdd
    \/ AddField
    \/ ToggleExpanded
    \/ Rename
    \/ ChangeType
    \/ Remove
    \/ RuleSwitch
    \/ RuleNumberInput
    \/ RuleTextInput
    \/ SetItemTypeSelect
    \/ SetItemTypeButton
    \/ ItemSelectTypeToAdd
    \/ AddFieldToArrayItems
    \/ ObjectSelectTypeToAdd
    \/ AddProperty

Spec == Init /\ [][Next]_vars

\* the handlers one edit of a forest can reach: the value Inputs of a rule
\* are shown once a Switch has enabled the rule, which is an edit before theirs
DeepNext ==
    \/ SetSelectedTypeToAdd
    \/ AddField
    \/ ToggleExpanded
    \/ Rename
    \/ ChangeType
    \/ Remove
    \/ RuleSwitch
    \/ SetItemTypeSelect
    \/ SetItemTypeButton
    \/ ItemSelectTypeToAdd
    \/ AddFieldToArrayItems
    \/ ObjectSelectTypeToAdd
    \/ AddProperty

DeepSpec == DeepInit /\ [][DeepNext]_vars

\* a field as a host passes it in initialSchema: ValidationRule.value is
\* optional, and here no rule carries one
LoadedField(type) ==
    LET field == createSchemaField(type, generateUUID(0))
    IN [field EXCEPT !.validation_rules =
           MapSeq(field.validation_rules,
                  LAMBDA rule : [rule EXCEPT !.value = VUndef])]

\* the SchemaBuilder mounted with an initialSchema of one such field: the
\* effect on [initialSchema] has set the forest to it
LoadedInit ==
    /\ \E type \in DataType : schema = <<LoadedField(type)>>
    /\ selectedTypeToAdd = "string"
    /\ nextId = 0
    /\ lastOp = "mount"
    /\ schemas = <<>>
    /\ selectedSchema = None
    /\ isCreating = FALSE
    /\ newSchemaName = <<>>
    /\ showJsonView = FALSE
    /\ clock = 0
    /\ nextSchemaId = 0
    /\ wsLeft = 0
    /\ fieldsLeft = LoadedFields
    /\ editsLeft = LoadedEdits

LoadedSpec == LoadedInit /\ [][DeepNext]_vars

----------------------------------------------------------------------------
(* SchemaListManager: the workspace of schemas and the views *)

\* String.prototype.trim on a sequence of characters
RECURSIVE TrimStart(_)
TrimStart(name) ==
    IF name # <<>> /\ Head(name) = " " THEN TrimStart(Tail(name)) ELSE name

RECURSIVE TrimEnd(_)
TrimEnd(name) ==
    IF name # <<>> /\ name[Len(name)] = " "
    THEN TrimEnd(SubSeq(name, 1, Len(name) - 1))
    ELSE name

Trim(name) == TrimEnd(TrimStart(name))

\* the k-th schema id generated; distinct calls give distinct ids
generateSchemaId(k) == "s" \o ToString(k)

\* generateCompleteJson()
generateCompleteJson(list) ==
    MapSeq(list, LAMBDA s : [name |-> s.name, schema |-> s.fields])

\* deleteSchema: schemas.filter((s) => s.id !== schemaId)
deleteSchema(list, schemaId) ==
    FilterSeq(list, LAMBDA s : s.id # schemaId)

renameSchemaKeepingName(list, schemaId, newName, now) ==
    MapSeq(list, LAMBDA s : IF s.id = schemaId
                            THEN [s EXCEPT !.updatedAt = now]
                            ELSE s)

\* renameSchema: the new list of schemas
renameSchema(list, schemaId, newName, now) ==
    MapSeq(list, LAMBDA s : IF s.id = schemaId
                            THEN [s EXCEPT !.name = newName, !.updatedAt = now]
                            ELSE s)

\* which view SchemaListManager renders
EditingView == IsDefined(selectedSchema)
JsonView == ~IsDefined(selectedSchema) /\ showJsonView
ListView == ~IsDefined(selectedSchema) /\ ~showJsonView

WsInit ==
    /\ schema = <<>>
    /\ selectedTypeToAdd = "string"
    /\ nextId = 0
    /\ fieldsLeft = WsFields
    /\ editsLeft = WsEdits
    /\ lastOp = "load"
    /\ schemas = <<>>
    /\ selectedSchema = None
    /\ isCreating = FALSE
    /\ newSchemaName = <<>>
    /\ showJsonView = FALSE
    /\ clock = 0
    /\ nextSchemaId = 0
    /\ wsLeft = WsOps

\* a workspace handler ran
WsStep(name) ==
    /\ wsLeft > 0
    /\ wsLeft' = wsLeft - 1
    /\ lastOp' = name
    /\ UNCHANGED <<nextId, fieldsLeft, editsLeft>>

\* no builder is mounted: its state is gone
BuilderGone ==
    /\ schema' = <<>>
    /\ selectedTypeToAdd' = "string"

\* SchemaBuilder mounts with initialSchema for the schema schemaId of list:
\* its state starts empty; the effect on [initialSchema] sets it to
\* initialSchema; the effect on [schema] reports the empty state and, after
\* the re-render, the initial forest
MountBuilder(list, schemaId, initialSchema) ==
    /\ schema' = initialSchema
    /\ selectedTypeToAdd' = "string"
    /\ schemas' = updateSchema(updateSchema(list, schemaId, <<>>, clock),
                               schemaId, initialSchema, clock + 1)
    /\ clock' = clock + 2

\* "New Schema"
StartCreating ==
    /\ ListView
    /\ ~isCreating
    /\ WsStep("startCreating")
    /\ isCreating' = TRUE
    /\ UNCHANGED <<schema, selectedTypeToAdd, schemas, selectedSchema,
                   newSchemaName, showJsonView, clock, nextSchemaId>>

\* typing in the schema name input
TypeNewSchemaName ==
    \E name \in SchemaNameInputs :
        /\ ListView
        /\ isCreating
        /\ name # newSchemaName
        /\ WsStep("typeNewSchemaName")
        /\ newSchemaName' = name
        /\ UNCHANGED <<schema, selectedTypeToAdd, schemas, selectedSchema,
                       isCreating, showJsonView, clock, nextSchemaId>>

\* createSchema(), from the Enter key or the "Create" button
CreateSchema ==
    /\ ListView
    /\ isCreating
    /\ WsStep("createSchema")
    /\ IF Trim(newSchemaName) = <<>>
       THEN UNCHANGED <<schema, selectedTypeToAdd, schemas, selectedSchema,
                        isCreating, newSchemaName, showJsonView, clock,
                        nextSchemaId>>
       ELSE LET newSchema == [ id |-> generateSchemaId(nextSchemaId + 1),
                               name |-> Trim(newSchemaName),
                               fields |-> <<>>,
                               createdAt |-> clock,
                               updatedAt |-> clock ]
            IN /\ selectedSchema' = Some(newSchema)
               /\ MountBuilder(schemas \o <<newSchema>>, newSchema.id,
                               newSchema.fields)
               /\ newSchemaName' = <<>>
               /\ isCreating' = FALSE
               /\ nextSchemaId' = nextSchemaId + 1
               /\ UNCHANGED showJsonView

\* "Cancel"
CancelCreating ==
    /\ ListView
    /\ isCreating
    /\ WsStep("cancelCreating")
    /\ isCreating' = FALSE
    /\ newSchemaName' = <<>>
    /\ UNCHANGED <<schema, selectedTypeToAdd, schemas, selectedSchema,
                   showJsonView, clock, nextSchemaId>>

\* clicking a schema of the list, or its edit button
SelectSchema ==
    \E i \in 1..Len(schemas) :
        /\ ListView
        /\ WsStep("selectSchema")
        /\ selectedSchema' = Some(schemas[i])
        /\ MountBuilder(schemas, schemas[i].id, schemas[i].fields)
        /\ UNCHANGED <<isCreating, newSchemaName, showJsonView, nextSchemaId>>

\* "Back to Schemas" of the editing view
BackToSchemas ==
    /\ EditingView
    /\ WsStep("backToSchemas")
    /\ selectedSchema' = None
    /\ BuilderGone
    /\ UNCHANGED <<schemas, isCreating, newSchemaName, showJsonView, clock,
                   nextSchemaId>>

\* the trash button of a schema of the list
DeleteSchema ==
    \E i \in 1..Len(schemas) :
        /\ ListView
        /\ WsStep("deleteSchema")
        /\ schemas' = deleteSchema(schemas, schemas[i].id)
        /\ selectedSchema' =
              IF IsDefined(selectedSchema) /\ Get(selectedSchema).id = schemas[i].id
              THEN None ELSE selectedSchema
        /\ UNCHANGED <<schema, selectedTypeToAdd, isCreating, newSchemaName,
                       showJsonView, clock, nextSchemaId>>

\* typing in the schema name input of the editing view
RenameSchema ==
    \E newName \in RenameInputs :
        /\ EditingView
        /\ newName # Get(selectedSchema).name
        /\ WsStep("renameSchema")
        /\ schemas' = renameSchema(schemas, Get(selectedSchema).id, newName, clock)
        /\ selectedSchema' =
              Some([Get(selectedSchema) EXCEPT !.name = newName,
                                               !.updatedAt = clock])
        /\ clock' = clock + 1
        /\ UNCHANGED <<schema, selectedTypeToAdd, isCreating, newSchemaName,
                       showJsonView, nextSchemaId>>

\* "JSON View"
ShowJsonView ==
    /\ ListView
    /\ WsStep("showJsonView")
    /\ showJsonView' = TRUE
    /\ UNCHANGED <<schema, selectedTypeToAdd, schemas, selectedSchema,
                   isCreating, newSchemaName, clock, nextSchemaId>>

\* "Back to Schemas" of the JSON view
HideJsonView ==
    /\ JsonView
    /\ WsStep("hideJsonView")
    /\ showJsonView' = FALSE
    /\ UNCHANGED <<schema, selectedTypeToAdd, schemas, selectedSchema,
                   isCreating, newSchemaName, clock, nextSchemaId>>

\* the builder is on screen in the editing view only
BuilderStep ==
    /\ EditingView
    /\ Next

WsNext ==
    \/ StartCreating
    \/ TypeNewSchemaName
    \/ CreateSchema
    \/ CancelCreating
    \/ SelectSchema
    \/ BackToSchemas
    \/ DeleteSchema
    \/ RenameSchema
    \/ ShowJsonView
    \/ HideJsonView
    \/ BuilderStep

WorkspaceSpec == WsInit /\ [][WsNext]_vars

----------------------------------------------------------------------------
(* Walking a forest *)

\* every field of a forest in preorder, at every depth: the fields
\* themselves, those in any properties list and those in any item_schema
RECURSIVE Flatten(_)
Flatten(fields) ==
    IF fields = <<>> THEN <<>>
    ELSE LET field == Head(fields)
         IN <<field>> \o Flatten(OrEmpty(field.properties))
                      \o Flatten(field.item_schema)
                      \o Flatten(Tail(fields))

AllFields(fields) == Range(Flatten(fields))

\* the fields below the top level
NestedFields(fields) ==
    UNION { AllFields(OrEmpty(field.properties)) \cup AllFields(field.item_schema)
            : field \in Range(fields) }

RuleNames(rules) == [i \in 1..Len(rules) |-> rules[i].name]

EnabledNames(field) ==
    { rule.name : rule \in { r \in Range(field.validation_rules) : r.enabled } }

----------------------------------------------------------------------------
(* C1 *)

\* the rule mapping of every exported field has exactly the names of the
\* field's enabled rules as keys, at every depth of the export
RECURSIVE RulesExportedByEnabled(_, _)
RulesExportedByEnabled(fields, exported) ==
    /\ Len(exported) = Len(fields)
    /\ \A i \in 1..Len(fields) :
        LET field == fields[i]
            out == exported[i]
        IN /\ { entry.name : entry \in Range(out.validation_rules) }
                = EnabledNames(field)
           /\ \A rule \in Range(field.validation_rules) :
                ~rule.enabled =>
                    \A entry \in Range(out.validation_rules) : entry.name # rule.name
           /\ "properties" \in DOMAIN out =>
                RulesExportedByEnabled(Get(field.properties), out.properties)
           /\ "item_schema" \in DOMAIN out =>
                RulesExportedByEnabled(field.item_schema, <<out.item_schema>>)

\* C1: in every reachable forest, for every field at every depth, the
\* validation_rules mapping produced by cleanSchemaForExport has a key for a
\* rule name if and only if the field's rule of that name is enabled; no
\* disabled rule appears in the export.
C1_DisabledRulesNeverExported ==
    /\ RulesExportedByEnabled(schema, cleanSchemaForExport(schema))
    /\ \A field \in AllFields(schema) :
          { entry.name : entry \in Range(CleanField(field).validation_rules) }
            = EnabledNames(field)

\* a rule switch has just run, and a field below the top level has one
\* enabled rule, which is exported, and a disabled rule, which is not
C1_Witness ==
    /\ lastOp = "ruleSwitch"
    /\ \E field \in NestedFields(schema) :
        /\ EnabledNames(field) # {}
        /\ \E rule \in Range(field.validation_rules) : ~rule.enabled
        /\ Len(CleanField(field).validation_rules) = 1

----------------------------------------------------------------------------
(* C2 *)

UiKeys == {"id", "isExpanded", "selectedTypeToAdd"}

\* no exported object has a UI-only key, at any depth
RECURSIVE NoUiKeys(_)
NoUiKeys(exported) ==
    \A i \in 1..Len(exported) :
        LET out == exported[i]
        IN /\ DOMAIN out \cap UiKeys = {}
           /\ "properties" \in DOMAIN out => NoUiKeys(out.properties)
           /\ "item_schema" \in DOMAIN out => NoUiKeys(<<out.item_schema>>)

\* the forest with the three UI-only attributes of every field, at every
\* depth, set to fixed values: two forests differ only in those attributes
\* exactly when this maps them to the same forest
RECURSIVE WithoutUiState(_)
WithoutUiState(fields) ==
    [i \in 1..Len(fields) |->
        [ id |-> "",
          display_name |-> fields[i].display_name,
          data_type |-> fields[i].data_type,
          validation_rules |-> fields[i].validation_rules,
          properties |-> IF IsDefined(fields[i].properties)
                         THEN Some(WithoutUiState(Get(fields[i].properties)))
                         ELSE None,
          item_schema |-> WithoutUiState(fields[i].item_schema),
          selectedTypeToAdd |-> None,
          isExpanded |-> FALSE ]]

UiOnlyOps ==
    {"toggleExpanded", "itemSelectTypeToAdd", "objectSelectTypeToAdd",
     "setSelectedTypeToAdd"}

C2_NoUiStateExported ==
    /\ NoUiKeys(cleanSchemaForExport(schema))
    /\ cleanSchemaForExport(WithoutUiState(schema)) = cleanSchemaForExport(schema)

C2_UiOpsKeepExport ==
    lastOp' \in UiOnlyOps =>
        cleanSchemaForExport(schema') = cleanSchemaForExport(schema)

\* C2: the export of a forest never contains id, isExpanded or
\* selectedTypeToAdd at any depth; forests that differ only in those
\* attributes have the same export; toggling a field's expansion or changing
\* a 'type to add' selection never changes the export.
C2_ExportIgnoresUiState ==
    [](C2_NoUiStateExported) /\ [][C2_UiOpsKeepExport]_vars

\* a card below the top level has just been collapsed, and the forest
\* differs from the one without UI state while its export does not
C2_Witness ==
    /\ lastOp = "toggleExpanded"
    /\ \E field \in NestedFields(schema) : ~field.isExpanded
    /\ WithoutUiState(schema) # schema
    /\ cleanSchemaForExport(schema) # <<>>

----------------------------------------------------------------------------
(* C4 *)

\* C4: in every forest reachable from the empty forest, every field at every
\* depth has validation_rules whose list of rule names is exactly the catalog
\* list of the field's current data_type.
C4_RuleCompleteness ==
    \A field \in AllFields(schema) :
        RuleNames(field.validation_rules)
          = RuleNames(VALIDATION_RULES_BY_TYPE[field.data_type])

\* the type of a field has just been changed and a field below the top level
\* has a type other than the default one
C4_Witness ==
    /\ lastOp = "changeType"
    /\ \E field \in NestedFields(schema) : field.data_type \in {"number", "boolean"}

----------------------------------------------------------------------------
(* C5 *)

\* C5: for every field f shown on a card and every type T different from
\* f.data_type, changing f's type to T yields a field with data_type = T, no
\* enabled rule, properties equal to the empty list when T = object and
\* absent otherwise, and no item_schema.
C5_TypeChangeResets ==
    \A c \in Cards(schema) : \A T \in DataType \ {c.field.data_type} :
        LET next == OnDataTypeChange(schema, c, T)
            changed == { f \in AllFields(next) : f.id = c.field.id }
        IN /\ changed # {}
           /\ \A f \in changed :
                /\ f.data_type = T
                /\ EnabledNames(f) = {}
                /\ f.properties = (IF T = "object" THEN Some(<<>>) ELSE None)
                /\ f.item_schema = None

----------------------------------------------------------------------------
(* C6 *)

\* C6: in every reachable forest, every field at every depth has properties
\* defined if and only if its data_type is object.
C6_PropertiesIffObject ==
    \A field \in AllFields(schema) :
        IsDefined(field.properties) <=> field.data_type = "object"

----------------------------------------------------------------------------
(* C7 *)

\* C7: in every reachable forest, a field has item_schema defined only if
\* its data_type is array.
C7_ItemSchemaOnlyOnArray ==
    \A field \in AllFields(schema) :
        IsDefined(field.item_schema) => field.data_type = "array"

----------------------------------------------------------------------------
(* C8 *)

\* C8: with generateUUID never returning a value twice, every reachable
\* forest has pairwise distinct field ids across the whole tree, item_schema
\* subtrees included.
C8_IdsDistinct ==
    LET all == Flatten(schema)
    IN \A i, j \in 1..Len(all) : i # j => all[i].id # all[j].id

----------------------------------------------------------------------------
(* C9 *)

\* the forest with the node a path addresses replaced by new, where the path
\* is read the way renderField builds it: an id selects a field of the
\* current list, ITEM_SCHEMA the item schema of the current field
RECURSIVE ReplaceAt(_, _, _)
RECURSIVE ReplaceBelow(_, _, _)
ReplaceAt(fields, path, new) ==
    [i \in 1..Len(fields) |->
        IF fields[i].id = path[1]
        THEN (IF Len(path) = 1 THEN new
              ELSE ReplaceBelow(fields[i], Tail(path), new))
        ELSE fields[i]]

ReplaceBelow(field, rest, new) ==
    IF rest[1] = ITEM_SCHEMA
    THEN (IF ~IsDefined(field.item_schema) THEN field
          ELSE IF Len(rest) = 1 THEN [field EXCEPT !.item_schema = Some(new)]
          ELSE [field EXCEPT !.item_schema =
                  Some(ReplaceBelow(Get(field.item_schema), Tail(rest), new))])
    ELSE (IF ~IsDefined(field.properties) THEN field
          ELSE [field EXCEPT !.properties =
                  Some(ReplaceAt(Get(field.properties), rest, new))])

\* C9: for every path renderField assigns to a card, updateField(path,
\* patch) replaces exactly the node the path addresses with the shallow
\* merge of its state and the patch, and leaves every other node unchanged.
C9_UpdateFieldHitsAddressedNode ==
    \A c \in Cards(schema) : \A name \in NameInputs :
        LET patch == [display_name |-> name]
        IN updateField(schema, c.path, patch)
             = ReplaceAt(schema, c.path, Merge(c.field, patch))

----------------------------------------------------------------------------
(* C10 *)

\* an id no field has
Ghost == "ghost"

\* the path addresses a node, read the way renderField builds paths
RECURSIVE Resolves(_, _)
RECURSIVE ResolvesBelow(_, _)
Resolves(fields, path) ==
    \E i \in 1..Len(fields) :
        /\ fields[i].id = path[1]
        /\ Len(path) = 1 \/ ResolvesBelow(fields[i], Tail(path))

ResolvesBelow(field, rest) ==
    IF rest[1] = ITEM_SCHEMA
    THEN /\ IsDefined(field.item_schema)
         /\ Len(rest) = 1 \/ ResolvesBelow(Get(field.item_schema), Tail(rest))
    ELSE /\ IsDefined(field.properties)
         /\ Resolves(Get(field.properties), rest)

\* paths tried: a card's path extended by an id no field has or by
\* ITEM_SCHEMA, and the one-segment path of an id no field has
ProbePaths(fields) ==
    {<<Ghost>>}
      \cup { c.path \o <<Ghost>> : c \in Cards(fields) }
      \cup { c.path \o <<ITEM_SCHEMA>> : c \in Cards(fields) }

ProbeField == createSchemaField("string", Ghost)

\* C10: an operation whose path does not resolve to an existing node, or
\* whose target cannot accept it (addField under a parent that is not an
\* object, an array-item operation on a field that is not an array with an
\* object item schema), returns a forest equal to the input forest.
C10_InapplicableOperationsAreNoOps ==
    /\ \A path \in ProbePaths(schema) :
          ~Resolves(schema, path) =>
              /\ updateField(schema, path, [display_name |-> "n"]) = schema
              /\ addField(schema, Some(path), ProbeField) = schema
              /\ updateValidationRule(schema, path, "required", TRUE, VBool(TRUE)) = schema
              /\ setArrayItemSchema(schema, path, ProbeField) = schema
              /\ addArrayItemField(schema, path, ProbeField) = schema
              /\ removeField(schema, path) = schema
    /\ \A c \in Cards(schema) :
          /\ c.field.data_type # "object" =>
                addField(schema, Some(c.path), ProbeField) = schema
          /\ ~(c.field.data_type = "array" /\ ItemIsObject(c.field)) =>
                /\ addArrayItemField(schema, c.path, ProbeField) = schema
                /\ updateArrayItemField(schema, c.path, Ghost,
                                        [display_name |-> "n"]) = schema
                /\ removeArrayItemField(schema, c.path, Ghost) = schema

----------------------------------------------------------------------------
(* C3 *)

\* C3: the workspace export (generateCompleteJson) is a list with one
\* {name, schema} entry per schema in workspace order, and each entry's
\* schema equals cleanSchemaForExport of that schema's fields: it contains no
\* id/isExpanded/selectedTypeToAdd and no disabled rule.
C3_WorkspaceExportIsCleaned ==
    LET json == generateCompleteJson(schemas)
    IN /\ Len(json) = Len(schemas)
       /\ \A i \in 1..Len(schemas) :
            /\ json[i].name = schemas[i].name
            /\ NoUiKeys(json[i].schema)
            /\ json[i].schema = cleanSchemaForExport(schemas[i].fields)

----------------------------------------------------------------------------
(* C11 *)

\* field with child appended to its properties
WithChild(field, child) ==
    [field EXCEPT !.properties = Some(OrEmpty(field.properties) \o <<child>>)]

\* C11: adding a child to an object field located anywhere in the tree makes
\* that object's properties its previous properties followed by the new
\* field and alters no other field; adding at the top level appends the new
\* field after the existing top-level fields.
C11_AddChildAppends ==
    LET newField == createSchemaField("string", FreshId)
    IN /\ addField(schema, None, newField) = schema \o <<newField>>
       /\ \A c \in Cards(schema) :
            /\ c.field.data_type = "object" =>
                  addField(schema, Some(c.path), newField)
                    = ReplaceAt(schema, c.path, WithChild(c.field, newField))
            /\ ShowsObjectControls(c) =>
                  OnAddProperty(schema, c, FreshId)
                    = ReplaceAt(schema, c.path,
                                WithChild(c.field,
                                    createSchemaField(TypeToAddOf(c.field), FreshId)))
            /\ ShowsItemControls(c) =>
                  LET item == Get(c.field.item_schema)
                  IN OnAddFieldToArrayItems(schema, c, FreshId)
                       = ReplaceAt(schema, c.path \o <<ITEM_SCHEMA>>,
                                   WithChild(item,
                                       createSchemaField(TypeToAddOf(item), FreshId)))

----------------------------------------------------------------------------
(* C12 *)

\* C12: choosing an item type T for an array field without item schema
\* installs a freshly created default field of type T as that array's
\* item_schema and changes nothing else in the forest, for an array at any
\* position.
C12_SetItemTypeInstalls ==
    \A c \in Cards(schema) : \A T \in DataType :
        ShowsItemTypeControls(c) =>
            OnItemTypeChosen(schema, c, T, FreshId)
              = ReplaceAt(schema, c.path,
                          [c.field EXCEPT !.item_schema =
                              Some(createSchemaField(T, FreshId))])

----------------------------------------------------------------------------
(* C13 *)

\* the node a path addresses, read the way renderField builds paths
RECURSIVE NodeAt(_, _)
RECURSIVE NodeBelow(_, _)
NodeAt(fields, path) ==
    LET hits == FilterSeq(fields, LAMBDA f : f.id = path[1])
    IN IF hits = <<>> THEN None
       ELSE IF Len(path) = 1 THEN Some(hits[1])
       ELSE NodeBelow(hits[1], Tail(path))

NodeBelow(field, rest) ==
    IF rest[1] = ITEM_SCHEMA
    THEN (IF ~IsDefined(field.item_schema) THEN None
          ELSE IF Len(rest) = 1 THEN field.item_schema
          ELSE NodeBelow(Get(field.item_schema), Tail(rest)))
    ELSE NodeAt(OrEmpty(field.properties), rest)

ParentPath(path) == SubSeq(path, 1, Len(path) - 1)

LastSegment(path) == path[Len(path)]

\* fields without the field of the given id, the others in their order
Without(fields, id) == FilterSeq(fields, LAMBDA f : f.id # id)

\* the forest with the field a path addresses taken out of the list that
\* holds it
RemoveAt(fields, path) ==
    IF Len(path) = 1 THEN Without(fields, path[1])
    ELSE LET parent == Get(NodeAt(fields, ParentPath(path)))
         IN ReplaceAt(fields, ParentPath(path),
                      [parent EXCEPT !.properties =
                          Some(Without(OrEmpty(parent.properties),
                                       LastSegment(path)))])

\* the card's field is a top-level field or a property of an object
InPropertiesOfObject(fields, c) ==
    /\ LastSegment(c.path) # ITEM_SCHEMA
    /\ Len(c.path) > 1 =>
          /\ IsDefined(NodeAt(fields, ParentPath(c.path)))
          /\ Get(NodeAt(fields, ParentPath(c.path))).data_type = "object"

\* C13: removeField with a one-segment path removes exactly the top-level
\* field with that id; with a longer path whose parent is an object it
\* removes exactly the field with the last-segment id from the parent's
\* properties; the siblings keep their order and every other field is
\* unchanged.
C13_RemoveFieldRemovesAddressed ==
    \A c \in Cards(schema) :
        InPropertiesOfObject(schema, c) =>
            removeField(schema, c.path) = RemoveAt(schema, c.path)

----------------------------------------------------------------------------
(* C14 *)

\* the card's field is a property somewhere inside an item_schema subtree
InsideItemSchema(c) ==
    /\ LastSegment(c.path) # ITEM_SCHEMA
    /\ \E i \in 1..Len(c.path) : c.path[i] = ITEM_SCHEMA

\* the properties list that holds the field a path addresses
ContainingList(fields, path) ==
    LET parent == NodeAt(fields, ParentPath(path))
    IN IF IsDefined(parent) THEN Get(parent).properties ELSE None

\* C14: for every field inside an item_schema subtree at any depth, the
\* remove button renderField wires for it (removeArrayItemField or
\* removeField) removes exactly that field from the properties list that
\* contains it.
C14_RemoveInsideItemSchema ==
    \A c \in Cards(schema) :
        InsideItemSchema(c) =>
            ContainingList(OnRemoveClick(schema, c), c.path)
              = Some(Without(OrEmpty(ContainingList(schema, c.path)), c.field.id))

----------------------------------------------------------------------------
(* C15 *)

\* next is prev with, in the field at path, the rule ruleName set to enabled
\* and value, every other rule as it was and in its place, and no other
\* change anywhere in the forest
OnlyRuleSet(prev, next, path, ruleName, enabled, value) ==
    LET before == NodeAt(prev, path)
        after == NodeAt(next, path)
    IN /\ IsDefined(before)
       /\ IsDefined(after)
       /\ LET old == Get(before).validation_rules
              new == Get(after).validation_rules
          IN /\ Len(new) = Len(old)
             /\ \A i \in 1..Len(old) :
                   IF old[i].name = ruleName
                   THEN new[i] = [name |-> ruleName, enabled |-> enabled,
                                  value |-> value]
                   ELSE new[i] = old[i]
             /\ next = ReplaceAt(prev, path,
                                 [Get(before) EXCEPT !.validation_rules = new])

RuleValueInputs == {VBool(TRUE), VNum(2)}

\* C15: setting a rule (updateValidationRule / updateArrayItemValidationRule)
\* on an existing field replaces only the entry named ruleName with the given
\* enabled flag and value; every other rule of the field keeps its flag,
\* value and place, and no other field in the forest changes.
C15_SetRuleTouchesOneRule ==
    \A c \in Cards(schema) : \A rule \in Range(c.field.validation_rules) :
        \A enabled \in BOOLEAN, value \in RuleValueInputs :
            /\ OnlyRuleSet(schema,
                           updateValidationRule(schema, c.path, rule.name,
                                                enabled, value),
                           c.path, rule.name, enabled, value)
            /\ OnlyRuleSet(schema,
                           SetRuleFromCard(schema, c, rule.name, enabled, value),
                           c.path, rule.name, enabled, value)

----------------------------------------------------------------------------
(* C16 *)

\* the catalog kind of the rule name of a field of the given type
RuleKind(type, name) ==
    (CHOOSE cfg \in Range(VALIDATION_RULES_BY_TYPE[type]) : cfg.name = name).type

\* the rules of top-level fields that the step enabled and that had no
\* value before it, each as its catalog kind and the value it has now
EnabledFromAbsent ==
    LET rulesBefore ==
            UNION { { <<i, j>> : j \in 1..Len(schema[i].validation_rules) }
                    : i \in 1..Len(schema) }
        switchedOn ==
            { p \in rulesBefore :
                /\ Len(schema') = Len(schema)
                /\ schema'[p[1]].id = schema[p[1]].id
                /\ schema'[p[1]].data_type = schema[p[1]].data_type
                /\ ~schema[p[1]].validation_rules[p[2]].enabled
                /\ schema[p[1]].validation_rules[p[2]].value = VUndef
                /\ schema'[p[1]].validation_rules[p[2]].enabled }
    IN { <<RuleKind(schema[p[1]].data_type,
                    schema[p[1]].validation_rules[p[2]].name),
           schema'[p[1]].validation_rules[p[2]].value>> : p \in switchedOn }

\* C16 as stated: enabling a rule whose prior value is absent assigns false
\* to a boolean-kind rule, 0 to a number-kind rule and the empty string to a
\* text-kind rule.
C16_EnablingAssignsCreationDefault ==
    [][lastOp' = "ruleSwitch" =>
          \A p \in EnabledFromAbsent : p[2] = DefaultRuleValue(p[1])]_vars

\* what enabling assigns to a rule without value
EnablingDefault(kind) ==
    IF kind = "boolean" THEN VBool(TRUE)
    ELSE IF kind = "number" THEN VNum(0)
    ELSE VStr("")

\* C16, amended: enabling a rule whose prior value is absent assigns true to
\* a boolean-kind rule, 0 to a number-kind rule and the empty string to a
\* text-kind rule.
C16_EnablingAssignsDefault ==
    [][lastOp' = "ruleSwitch" =>
          \A p \in EnabledFromAbsent : p[2] = EnablingDefault(p[1])]_vars

\* a Switch has just enabled a number rule of a field loaded without rule
\* values: the rule holds 0 and another rule of the field still has no value
C16_Witness ==
    /\ lastOp = "ruleSwitch"
    /\ \E field \in Range(schema) :
        /\ \E rule \in Range(field.validation_rules) :
              rule.enabled /\ rule.value = VNum(0)
        /\ \E rule \in Range(field.validation_rules) : rule.value = VUndef

----------------------------------------------------------------------------
(* C18 *)

\* the keys the exported object of a field is to have
ExportKeys(field) ==
    {"display_name", "data_type", "validation_rules"}
      \cup (IF field.data_type = "object" THEN {"properties"} ELSE {})
      \cup (IF field.data_type = "array" /\ IsDefined(field.item_schema)
            THEN {"item_schema"} ELSE {})

\* exported is the export of fields: one object per field in order, with
\* exactly the keys above, the field's name and type, and the children and
\* the item field exported the same way
RECURSIVE ExportShape(_, _)
ExportShape(fields, exported) ==
    /\ Len(exported) = Len(fields)
    /\ \A i \in 1..Len(fields) :
        LET field == fields[i]
            out == exported[i]
        IN /\ DOMAIN out = ExportKeys(field)
           /\ out.display_name = field.display_name
           /\ out.data_type = field.data_type
           /\ "properties" \in DOMAIN out =>
                 /\ IsDefined(field.properties)
                 /\ ExportShape(Get(field.properties), out.properties)
           /\ "item_schema" \in DOMAIN out =>
                 /\ IsDefined(field.item_schema)
                 /\ ExportShape(field.item_schema, <<out.item_schema>>)

\* C18: for every field in a reachable forest, the exported object has
\* exactly display_name, data_type and validation_rules, plus properties (the
\* export of the children in order, present even when empty) iff the field is
\* an object, plus item_schema (the export of the item field, with its own
\* properties) iff the field is an array with an item schema set.
C18_ExportShape ==
    /\ ExportShape(schema, cleanSchemaForExport(schema))
    /\ \A field \in AllFields(schema) :
          ExportShape(<<field>>, <<CleanField(field)>>)

\* a property has just been added to an array's object item schema: the
\* array's export has an item_schema with that property in its properties,
\* and some object without children is exported with an empty properties list
C18_Witness ==
    /\ lastOp = "addFieldToArrayItems"
    /\ \E field \in Range(schema) :
          /\ field.data_type = "array"
          /\ ItemIsObject(field)
          /\ CleanField(field).item_schema.properties # <<>>
    /\ \E field \in AllFields(schema) :
          /\ field.data_type = "object"
          /\ CleanField(field).properties = <<>>

----------------------------------------------------------------------------
(* C19 *)

\* the handlers of the builder that call setSchema
MutationOps ==
    {"addField", "toggleExpanded", "rename", "changeType", "remove",
     "ruleSwitch", "ruleNumberInput", "ruleTextInput", "setItemTypeSelect",
     "setItemTypeButton", "itemSelectTypeToAdd", "addFieldToArrayItems",
     "objectSelectTypeToAdd", "addProperty"}

\* the place of the schema being edited in the workspace list
EditedIndex ==
    CHOOSE i \in 1..Len(schemas) : schemas[i].id = Get(selectedSchema).id

\* the step is a field mutation in the builder of the schema being edited;
\* when its effects have run, the workspace entry of that schema holds the
\* builder's new forest and a later updatedAt, and the other entries are as
\* they were
MutationReachesWorkspace ==
    (IsDefined(selectedSchema) /\ lastOp' \in MutationOps) =>
        /\ \E i \in 1..Len(schemas) : schemas[i].id = Get(selectedSchema).id
        /\ Len(schemas') = Len(schemas)
        /\ schemas'[EditedIndex].fields = schema'
        /\ schemas'[EditedIndex].updatedAt > schemas[EditedIndex].updatedAt
        /\ schemas'[EditedIndex].id = schemas[EditedIndex].id
        /\ schemas'[EditedIndex].name = schemas[EditedIndex].name
        /\ schemas'[EditedIndex].createdAt = schemas[EditedIndex].createdAt
        /\ \A i \in 1..Len(schemas) : i # EditedIndex => schemas'[i] = schemas[i]

\* C19: after every field mutation made in the builder for the schema being
\* edited, the workspace entry of that schema holds the builder's new forest
\* as its fields and an updatedAt later than before the mutation; the entries
\* of other schemas are unchanged.
C19_MutationRefreshesEntry ==
    [][MutationReachesWorkspace]_vars

\* a field has just been added in the builder of the second of two schemas:
\* its entry holds the new forest, the first schema's entry still has none
C19_Witness ==
    /\ lastOp = "addField"
    /\ Len(schemas) = 2
    /\ IsDefined(selectedSchema)
    /\ Get(selectedSchema).id = schemas[2].id
    /\ schemas[2].fields = schema
    /\ schema # <<>>
    /\ schemas[1].fields = <<>>

----------------------------------------------------------------------------
(* C20 *)

\* the card shows a property of the object item schema of an array that is
\* itself a property of an array's object item schema: its path ends in
\* item_schema, <inner array>, item_schema, <property>
InnerItemProperty(c) ==
    LET n == Len(c.path)
    IN /\ n >= 5
       /\ c.path[n] # ITEM_SCHEMA
       /\ c.path[n - 1] = ITEM_SCHEMA
       /\ c.path[n - 2] # ITEM_SCHEMA
       /\ c.path[n - 3] = ITEM_SCHEMA

\* C20: for an array whose item schema is an object containing another array
\* whose item schema is an object, every property of the inner item schema
\* can be renamed, retyped, have rules set and be removed through the
\* handlers renderField wires for it, and each such edit changes that inner
\* property and nothing else.
C20_InnerItemPropertyEditable ==
    \A c \in Cards(schema) :
        InnerItemProperty(c) =>
            /\ \A name \in NameInputs :
                  OnDisplayNameChange(schema, c, name)
                    = ReplaceAt(schema, c.path,
                                Merge(c.field, [display_name |-> name]))
            /\ \A T \in DataType \ {c.field.data_type} :
                  OnDataTypeChange(schema, c, T)
                    = ReplaceAt(schema, c.path,
                                Merge(c.field, TypeChangeUpdates(T)))
            /\ \A cfg \in ShownRules(c.field) :
                  LET rule == FindRule(c.field, cfg.name)
                  IN OnlyRuleSet(schema, OnRuleSwitch(schema, c, cfg), c.path,
                                 rule.name, ~rule.enabled,
                                 SwitchValue(rule, cfg.type, ~rule.enabled))
            /\ OnRemoveClick(schema, c) = RemoveAt(schema, c.path)

----------------------------------------------------------------------------
(* C21 *)

\* what a freshly created field of type T looks like, stated field by field
IsFreshFieldOf(f, T) ==
    LET catalog == VALIDATION_RULES_BY_TYPE[T]
    IN /\ f.data_type = T
       /\ f.display_name = ""
       /\ f.isExpanded = TRUE
       /\ Len(f.validation_rules) = Len(catalog)
       /\ \A i \in 1..Len(catalog) :
             /\ f.validation_rules[i].name = catalog[i].name
             /\ f.validation_rules[i].enabled = FALSE
             /\ f.validation_rules[i].value =
                   (CASE catalog[i].type = "boolean" -> VBool(FALSE)
                      [] catalog[i].type = "number" -> VNum(0)
                      [] OTHER -> VStr(""))
       /\ (IsDefined(f.properties) <=> T = "object")
       /\ (IsDefined(f.properties) => Get(f.properties) = <<>>)
       /\ ~IsDefined(f.item_schema)
       /\ (IsDefined(f.selectedTypeToAdd) <=> T \in {"object", "array"})
       /\ (IsDefined(f.selectedTypeToAdd) => Get(f.selectedTypeToAdd) = "string")

\* C21: createSchemaField(T) returns, for every data type T, a field with
\* data_type T, an empty display_name, isExpanded true, one rule per catalog
\* entry of T in catalog order, each disabled with value false, 0 or '' by
\* kind, properties = [] exactly when T is object, no item_schema, and
\* selectedTypeToAdd 'string' exactly when T is object or array; the field
\* "Add Field" has just appended is such a field of the header's type.
C21_CreateSchemaFieldDefaults ==
    /\ \A T \in DataType : IsFreshFieldOf(createSchemaField(T, FreshId), T)
    /\ lastOp = "addField" =>
          /\ Len(schema) > 0
          /\ schema[Len(schema)].id = generateUUID(nextId)
          /\ IsFreshFieldOf(schema[Len(schema)], selectedTypeToAdd)

C21_Witness ==
    /\ lastOp = "addField"
    /\ Len(schema) = 2
    /\ schema[1].data_type = "object"
    /\ schema[2].data_type = "array"

----------------------------------------------------------------------------
(* C22 *)

\* the workspace entries with the id of the selected schema
SelectedEntries ==
    { i \in 1..Len(schemas) : schemas[i].id = Get(selectedSchema).id }

SelectedNameMatchesEntry ==
    IsDefined(selectedSchema) =>
        /\ SelectedEntries # {}
        /\ \A i \in SelectedEntries :
              schemas[i].name = Get(selectedSchema).name

RenameKeepsFields ==
    lastOp' = "renameSchema" =>
        /\ Len(schemas') = Len(schemas)
        /\ \A i \in 1..Len(schemas) :
              /\ schemas'[i].id = schemas[i].id
              /\ schemas'[i].fields = schemas[i].fields
        /\ Get(selectedSchema').fields = Get(selectedSchema).fields
        /\ \E i \in 1..Len(schemas) :
              /\ schemas[i].id = Get(selectedSchema).id
              /\ schemas'[i].name # schemas[i].name

\* C22: renaming a schema updates both the workspace list and the selected
\* schema: whenever a schema is selected, its name equals the name of the
\* workspace entry with the same id; and a rename changes the fields of no
\* schema.
C22_RenameKeepsListAndSelectedInStep ==
    [] SelectedNameMatchesEntry /\ [][RenameKeepsFields]_vars

C22_Witness ==
    /\ lastOp = "renameSchema"
    /\ IsDefined(selectedSchema)
    /\ Get(selectedSchema).name = <<"b">>
    /\ schema # <<>>
    /\ \E i \in 1..Len(schemas) : schemas[i].fields # <<>>

----------------------------------------------------------------------------
(* C23 *)

\* C23: while a schema is being edited, the fields of the selected-schema
\* snapshot equal the fields of the workspace entry with the same id after
\* every builder mutation, so the field count of the editing header (the
\* length of the snapshot's fields) equals the number of top-level fields of
\* the builder.
C23_SnapshotFollowsEntry ==
    IsDefined(selectedSchema) =>
        /\ \A i \in SelectedEntries :
              Get(selectedSchema).fields = schemas[i].fields
        /\ Len(Get(selectedSchema).fields) = Len(schema)

----------------------------------------------------------------------------
(* C24 *)

\* "Back to Schemas" pressed right after a schema was selected: no builder
\* edit and no rename happened in between
BackWithoutEdits ==
    /\ lastOp = "selectSchema"
    /\ lastOp' = "backToSchemas"

\* C24: selecting a schema and returning to the list without any edit leaves
\* its workspace entry exactly as it was when it was selected (the snapshot
\* taken by the selection): same fields and same updatedAt.
C24_OpenAndBackChangesNothing ==
    [][BackWithoutEdits =>
          \A i \in 1..Len(schemas') :
              schemas'[i].id = Get(selectedSchema).id =>
                  /\ schemas'[i].fields = Get(selectedSchema).fields
                  /\ schemas'[i].updatedAt = Get(selectedSchema).updatedAt]_vars

----------------------------------------------------------------------------
(* C25 *)

\* Two edit intents handled against one rendered snapshot: the handlers of
\* both come from the render of `schema`, the first leaves the pending state
\* `pending`, and no re-render happens before the second.  A handler that
\* calls setSchema with an updater function is run on the pending state; one
\* that calls setSchema with a value computed from the rendered `schema`
\* replaces the pending state by that value.

\* the card of the forest `fields` that stands where card c stands
SameCardIn(fields, c) ==
    { x \in Cards(fields) : /\ x.path = c.path
                            /\ x.isArrayItem = c.isArrayItem
                            /\ x.arrayPath = c.arrayPath }

\* a top-level "Add Field" handled after a pending rename keeps the rename
TopLevelAddKeepsPending ==
    \A c \in Cards(schema), name \in NameInputs :
        LET pending == OnDisplayNameChange(schema, c, name)
            newField == createSchemaField(selectedTypeToAdd, FreshId)
        IN addField(schema, None, newField) = pending \o <<newField>>

\* an "Add Property" handled after a pending rename gives what it gives when
\* the forest was re-rendered in between
AddPropertyKeepsPending ==
    \A c \in Cards(schema), name \in NameInputs :
        LET pending == OnDisplayNameChange(schema, c, name)
        IN \A o \in Cards(schema) :
              ShowsObjectControls(o) =>
                  \A o1 \in SameCardIn(pending, o) :
                      OnAddProperty(pending, o, FreshId) =
                          OnAddProperty(pending, o1, FreshId)

\* C25: no edit is lost when two edit intents are handled against the same
\* rendered snapshot, with no re-render between them: in particular a
\* top-level "Add Field" or an "Add Property" handled after another edit does
\* not discard that edit.
C25_NoEditLostInOneBatch ==
    /\ TopLevelAddKeepsPending
    /\ AddPropertyKeepsPending

----------------------------------------------------------------------------
(* C26 *)

\* the shape of a forest: the ids, each field's place (its parent and its
\* position in the parent's list), its data_type, and which lists exist
RECURSIVE Shape(_)
Shape(fields) ==
    [ i \in 1..Len(fields) |->
        [ id |-> fields[i].id,
          data_type |-> fields[i].data_type,
          properties |-> IF IsDefined(fields[i].properties)
                         THEN Some(Shape(Get(fields[i].properties)))
                         ELSE None,
          item_schema |-> Shape(fields[i].item_schema) ] ]

ShapeKeepingOps ==
    { "rename", "toggleExpanded", "itemSelectTypeToAdd",
      "objectSelectTypeToAdd", "ruleSwitch", "ruleNumberInput",
      "ruleTextInput" }

\* C26: renaming a field, toggling its expansion, changing its type-to-add
\* selection, or setting one of its rules, from any rendered card, never
\* changes the shape of the forest: the set of field ids, each field's
\* parent, each field's data_type and the order of every properties list
\* are the same before and after.
C26_CardEditsKeepShape ==
    [][lastOp' \in ShapeKeepingOps => Shape(schema') = Shape(schema)]_vars

C26_Witness ==
    /\ lastOp = "rename"
    /\ Len(schema) = 1
    /\ schema[1].data_type = "array"
    /\ ItemIsObject(schema[1])
    /\ \E p \in Range(OrEmpty(Get(schema[1].item_schema).properties)) :
          p.display_name = "n"

----------------------------------------------------------------------------
(* C27 *)

\* the rule names the catalog lists with kind boolean
BooleanRuleNames ==
    { cfg.name : cfg \in { x \in UNION { Range(VALIDATION_RULES_BY_TYPE[T])
                                         : T \in DataType }
                           : x.type = "boolean" } }

\* C27: every enabled boolean-kind rule of every field of the forest has the
\* value true, so the boolean-kind rules of an export are always true.
C27_EnabledBooleanRulesAreTrue ==
    \A field \in AllFields(schema) :
        /\ \A rule \in Range(field.validation_rules) :
              rule.enabled /\ rule.name \in BooleanRuleNames
                  => rule.value = VBool(TRUE)
        /\ \A entry \in Range(CleanField(field).validation_rules) :
              entry.name \in BooleanRuleNames => entry.value = VBool(TRUE)

\* a Switch has just enabled a boolean-kind rule of a field below the top
\* level, next to a disabled boolean-kind rule that still holds false
C27_Witness ==
    /\ lastOp = "ruleSwitch"
    /\ \E field \in NestedFields(schema) :
          /\ \E rule \in Range(field.validation_rules) :
                /\ rule.enabled
                /\ rule.name \in BooleanRuleNames
                /\ rule.name # "required"
          /\ \E rule \in Range(field.validation_rules) :
                /\ ~rule.enabled
                /\ rule.name \in BooleanRuleNames
                /\ rule.value = VBool(FALSE)
          /\ \E entry \in Range(CleanField(field).validation_rules) :
                entry.name \in BooleanRuleNames

----------------------------------------------------------------------------
(* C28 *)

\* the Switch of an enabled number or text rule, as card c shows it
EnabledValueRule(c, cfg) ==
    /\ cfg.type # "boolean"
    /\ FindRule(c.field, cfg.name).enabled

\* some field of the forest has an enabled number or text rule; the cards
\* show fields of the forest, so without one no card shows such a Switch
SomeValueRuleEnabled ==
    \E field \in AllFields(schema) :
        \E rule \in Range(field.validation_rules) :
            rule.enabled /\ rule.name \notin BooleanRuleNames

\* C28: disabling a number-kind or text-kind rule keeps its configured
\* value, and re-enabling it with no edit in between restores the same
\* value: the export after disable-then-enable equals the export before the
\* disable.
C28_DisableThenEnableRestores ==
    SomeValueRuleEnabled =>
        \A c \in Cards(schema) : \A cfg \in ShownRules(c.field) :
            EnabledValueRule(c, cfg) =>
                LET disabled == OnRuleSwitch(schema, c, cfg)
                IN \A c1 \in SameCardIn(disabled, c) :
                      LET enabledAgain == OnRuleSwitch(disabled, c1, cfg)
                      IN /\ FindRule(c1.field, cfg.name).value
                               = FindRule(c.field, cfg.name).value
                         /\ ~FindRule(c1.field, cfg.name).enabled =>
                               /\ \A c2 \in SameCardIn(enabledAgain, c) :
                                     FindRule(c2.field, cfg.name)
                                         = FindRule(c.field, cfg.name)
                               /\ cleanSchemaForExport(enabledAgain)
                                     = cleanSchemaForExport(schema)

\* a number Input has just set the value 2 on an enabled rule; its Switch
\* disables it, which takes it out of the export, and the disabled rule
\* still holds 2
C28_Witness ==
    /\ lastOp = "ruleNumberInput"
    /\ \E c \in Cards(schema) : \E cfg \in ShownRules(c.field) :
          /\ EnabledValueRule(c, cfg)
          /\ FindRule(c.field, cfg.name).value = VNum(2)
          /\ \E c1 \in SameCardIn(OnRuleSwitch(schema, c, cfg), c) :
                /\ ~FindRule(c1.field, cfg.name).enabled
                /\ FindRule(c1.field, cfg.name).value = VNum(2)
          /\ cleanSchemaForExport(OnRuleSwitch(schema, c, cfg))
                # cleanSchemaForExport(schema)

----------------------------------------------------------------------------
(* C29 *)

\* a non-empty name without leading or trailing whitespace
WellFormedName(name) ==
    /\ name # <<>>
    /\ Trim(name) = name

\* C29: every schema of the workspace, in every reachable state, has a
\* non-empty name without leading or trailing whitespace: createSchema
\* stores the trimmed name (and does nothing for an empty or whitespace-only
\* one), and no later operation, renameSchema included, makes a name empty.
C29_SchemaNamesWellFormed ==
    /\ \A i \in 1..Len(schemas) : WellFormedName(schemas[i].name)
    /\ IsDefined(selectedSchema) => WellFormedName(Get(selectedSchema).name)

----------------------------------------------------------------------------
(* C30 *)

\* the cards of the item schema of an array that is not itself inside an
\* item schema: the path of such a card is '<array>.item_schema'
ItemSchemaCards(fields) ==
    { c \in Cards(fields) :
        /\ Len(c.path) > 1
        /\ LastSegment(c.path) = ITEM_SCHEMA
        /\ \A i \in 1..(Len(c.path) - 1) : c.path[i] # ITEM_SCHEMA }

\* the trash button of an item schema card takes the item schema off its
\* array, whose card then offers the item type controls again
TrashRemovesItemSchema ==
    \A c \in ItemSchemaCards(schema) :
        LET next == OnRemoveClick(schema, c)
            array == NodeAt(next, ParentPath(c.path))
        IN /\ IsDefined(array)
           /\ ~IsDefined(Get(array).item_schema)
           /\ \E a \in Cards(next) :
                 /\ a.path = ParentPath(c.path)
                 /\ ShowsItemTypeControls(a)

\* an item schema that is exported can be edited by updateField on
\* '<array>.item_schema'
ExportedItemSchemaEditable ==
    \A c \in ItemSchemaCards(schema) :
        LET array == Get(NodeAt(schema, ParentPath(c.path)))
        IN "item_schema" \in DOMAIN CleanField(array) =>
              \A name \in NameInputs :
                  name # c.field.display_name =>
                      updateField(schema, c.path, [display_name |-> name])
                          = ReplaceAt(schema, c.path,
                                      Merge(c.field, [display_name |-> name]))

\* C30: after the item schema card of an array is removed with its trash
\* button (removeField on '<array>.item_schema'), the array no longer has an
\* item_schema and a new item type can be chosen; the item schema never
\* becomes a node that is still exported but can no longer be edited by
\* updateField on '<array>.item_schema'.
C30_TrashRemovesItemSchema ==
    /\ TrashRemovesItemSchema
    /\ ExportedItemSchemaEditable

====
